---- MODULE Spec2Model ----
(***************************************************************************)
(* Model of MetricsProvider (src/src/CountlyMetrics.ts, lines 83-265):     *)
(* consent ledger, consent persistence, session guard and the catalog of   *)
(* grouped features, together with the analytics service and the storage   *)
(* provider it talks to.                                                   *)
(*                                                                         *)
(* A JavaScript object is a sequence of [key, flags] entries (property     *)
(* order is insertion order); a JavaScript Set is a duplicate-free         *)
(* sequence (iteration order is insertion order).                          *)
(***************************************************************************)
EXTENDS Integers, Sequences, FiniteSets, TLC

VARIABLES mp, twin, last, eventMap, mapped

vars == <<mp, twin, last, eventMap, mapped>>

(* ------------------------------ bounds --------------------------------- *)
\* longest list handed to addConsent / removeConsent / updateConsent / the store
MaxList == 2
\* longest run of forwarded begin_session / end_session calls that is followed
MaxSessionCalls == 2
\* mapAllEvents inputs: number of keys and length of each flag list
MaxMapKeys == 2
MaxFlags == 2

(* ------------------------------ helpers -------------------------------- *)
Range(s) == {s[i] : i \in 1..Len(s)}

SeqsUpTo(S, n) == UNION {[1..k -> S] : k \in 0..n}

NoDup(s) == \A i, j \in 1..Len(s) : i # j => s[i] # s[j]

\* Set.prototype.add on an insertion-ordered set
SetAdd(s, c) == IF c \in Range(s) THEN s ELSE Append(s, c)

\* Set.prototype.delete on an insertion-ordered set
SetDelete(s, c) == SelectSeq(s, LAMBDA x : x # c)

\* Object.keys / the in operator / property read, on an object's own entries
Keys(obj) == [i \in 1..Len(obj) |-> obj[i].key]

Has(obj, k) == \E i \in 1..Len(obj) : obj[i].key = k

Get(obj, k) == obj[CHOOSE i \in 1..Len(obj) : obj[i].key = k].flags

\* Object.values(eventMap).flat()
RECURSIVE Flat(_)
Flat(obj) == IF obj = <<>> THEN <<>> ELSE obj[1].flags \o Flat(Tail(obj))

(* ------------------------------ catalog -------------------------------- *)
\* a list with every later repetition of an element dropped
RECURSIVE Dedup(_)
Dedup(list) ==
  IF list = <<>> THEN <<>>
  ELSE LET front == Dedup(SubSeq(list, 1, Len(list) - 1))
       IN SetAdd(front, list[Len(list)])

\* variant: 'all' lists every flag once
mapAllEvents_Dedup(em) ==
  LET flat == Dedup(Flat(em))
  IN IF Has(em, "all")
       THEN [i \in 1..Len(em) |->
               IF em[i].key = "all" THEN [key |-> "all", flags |-> flat] ELSE em[i]]
       ELSE Append(em, [key |-> "all", flags |-> flat])

\* { ...eventMap, all: Object.values(eventMap).flat() }
mapAllEvents(em) ==
  LET flat == Flat(em)
  IN IF Has(em, "all")
       THEN [i \in 1..Len(em) |->
               IF em[i].key = "all" THEN [key |-> "all", flags |-> flat] ELSE em[i]]
       ELSE Append(em, [key |-> "all", flags |-> flat])

BuiltinEventMap ==
  << [key |-> "minimal",     flags |-> <<"sessions", "views", "events">>],
     [key |-> "performance", flags |-> <<"crashes", "apm">>],
     [key |-> "ux",          flags |-> <<"scrolls", "clicks", "forms">>],
     [key |-> "feedback",    flags |-> <<"star-rating", "feedback">>],
     [key |-> "location",    flags |-> <<"location">>] >>

groupedFeatures == mapAllEvents(BuiltinEventMap)

CatalogKeys == Range(Keys(groupedFeatures))

(* ------------------------- analytics service --------------------------- *)
\* the feature flags a name stands for once group_features has been called:
\* a group name stands for its members, any other name for itself
FeaturesOf(name) ==
  IF Has(groupedFeatures, name) THEN Range(Get(groupedFeatures, name)) ELSE {name}

Call(fn, names, flags) == [fn |-> fn, names |-> names, flags |-> flags]

Forward(s, call) == [s EXCEPT !.calls = Append(@, call)]

svc_add_consent(s, list) ==
  [Forward(s, Call("add_consent", list, <<>>))
     EXCEPT !.svc = @ \cup UNION {FeaturesOf(n) : n \in Range(list)}]

svc_remove_consent(s, list, includeChildren) ==
  [Forward(s, Call("remove_consent", list, <<includeChildren>>))
     EXCEPT !.svc = @ \ UNION {FeaturesOf(n) : n \in Range(list)}]

svc_check_consent(s, name) == FeaturesOf(name) \subseteq s.svc

svc_begin_session(s, noHeartBeat, force) ==
  [Forward(s, Call("begin_session", <<>>, <<noHeartBeat, force>>))
     EXCEPT !.sessionLog = Append(@, "begin_session")]

\* end_session(undefined, force): no duration is handed over
svc_end_session(s, force) ==
  [Forward(s, Call("end_session", <<>>, <<force>>))
     EXCEPT !.sessionLog = Append(@, "end_session")]

(* -------------------------- storage provider --------------------------- *)
\* calling a method on a null provider raises a TypeError
sp_setStore(s, list) ==
  IF s.storageProvider
    THEN [s EXCEPT !.store = list, !.writes = @ + 1]
    ELSE [s EXCEPT !.raised = TRUE]

sp_getStore(s) == [s EXCEPT !.reads = @ + 1]

(* --------------------------- MetricsProvider --------------------------- *)
\* get consentGranted: [...this._consentGranted]
consentGranted(s) == s.consentGranted

\* variant: writes during construction too
setConsentStore_NoInitGuard(s) ==
  IF s.storageProvider
    THEN sp_setStore(s, s.consentGranted)
    ELSE s

\* variant: no presence check of the provider
setConsentStore_NoNullCheck(s) ==
  IF s.initDone
    THEN sp_setStore(s, s.consentGranted)
    ELSE s

\* if (this.storageProvider != null && this.initDone) setStore(Array.from(set))
setConsentStore(s) ==
  IF s.storageProvider /\ s.initDone
    THEN sp_setStore(s, s.consentGranted)
    ELSE s

\* this.storageProvider?.getStore() ?? []  (the state after the read, and its value)
getConsentStore(s) == IF s.storageProvider THEN sp_getStore(s) ELSE s

getConsentStoreValue(s) == IF s.storageProvider THEN s.store ELSE <<>>

\* a consent argument is one name or an array of names
One(name) == [isArray |-> FALSE, value |-> name]

Many(list) == [isArray |-> TRUE, value |-> list]

\* if (!Array.isArray(consent)) consent = [consent]
toArray(consent) == IF consent.isArray THEN consent.value ELSE <<consent.value>>

\* consent.forEach(c => this._consentGranted.add(c))
RECURSIVE addEach(_, _)
addEach(granted, list) ==
  IF list = <<>> THEN granted ELSE addEach(SetAdd(granted, Head(list)), Tail(list))

\* consent.forEach(c => this._consentGranted.delete(c))
RECURSIVE deleteEach(_, _)
deleteEach(granted, list) ==
  IF list = <<>> THEN granted ELSE deleteEach(SetDelete(granted, Head(list)), Tail(list))

\* variant: the store is written before the ledger is changed
addConsent_StaleStore(s, consent) ==
  LET list == toArray(consent)
      s1 == setConsentStore(s)
  IN svc_add_consent([s1 EXCEPT !.consentGranted = addEach(@, list)], list)

addConsent(s, consent) ==
  LET list == toArray(consent)
      s1 == [s EXCEPT !.consentGranted = addEach(@, list)]
  IN setConsentStore(svc_add_consent(s1, list))

\* variant: remove_consent(consent, false)
removeConsent_KeepChildren(s, consent) ==
  LET list == toArray(consent)
      s1 == [s EXCEPT !.consentGranted = deleteEach(@, list)]
  IN setConsentStore(svc_remove_consent(s1, list, FALSE))

removeConsent(s, consent) ==
  LET list == toArray(consent)
      s1 == [s EXCEPT !.consentGranted = deleteEach(@, list)]
  IN setConsentStore(svc_remove_consent(s1, list, TRUE))

\* variant: some instead of every
checkConsent_Some(s, consent) ==
  IF Has(groupedFeatures, consent)
    THEN \E f \in Range(Get(groupedFeatures, consent)) : svc_check_consent(s, f)
    ELSE svc_check_consent(s, consent)

checkConsent(s, consent) ==
  IF Has(groupedFeatures, consent)
    THEN \A f \in Range(Get(groupedFeatures, consent)) : svc_check_consent(s, f)
    ELSE svc_check_consent(s, consent)

\* variant: an incremental update, groups left out of the input are not removed
RECURSIVE updateEach_AddOnly(_, _, _)
updateEach_AddOnly(s, keys, approvedConsent) ==
  IF keys = <<>> THEN s
  ELSE LET groupName == Head(keys)
           s1 == IF groupName \in approvedConsent
                   THEN addConsent(s, One(groupName))
                   ELSE s
       IN updateEach_AddOnly(s1, Tail(keys), approvedConsent)

\* Object.keys(this.groupedFeatures).forEach(groupName => ...)
RECURSIVE updateEach(_, _, _)
updateEach(s, keys, approvedConsent) ==
  IF keys = <<>> THEN s
  ELSE LET groupName == Head(keys)
           s1 == IF groupName \in approvedConsent
                   THEN addConsent(s, One(groupName))
                   ELSE removeConsent(s, One(groupName))
       IN updateEach(s1, Tail(keys), approvedConsent)

\* variant: the loop leaves the synthesized 'all' group out
updateConsent_ExceptAll(s, consent) ==
  updateEach(s, SelectSeq(Keys(groupedFeatures), LAMBDA k : k # "all"), Range(consent))

updateConsent(s, consent) == updateEach(s, Keys(groupedFeatures), Range(consent))

\* variant: no guard on sessionStarted
startSession_NoGuard(s, noHeartBeat, force) ==
  svc_begin_session([s EXCEPT !.sessionStarted = TRUE], noHeartBeat, force)

startSession(s, noHeartBeat, force) ==
  IF ~s.sessionStarted
    THEN svc_begin_session([s EXCEPT !.sessionStarted = TRUE], noHeartBeat, force)
    ELSE s

endSession(s, force) ==
  IF s.sessionStarted
    THEN [svc_end_session(s, force) EXCEPT !.sessionStarted = FALSE]
    ELSE s

\* webSdk.track_clicks?.() ... this.metricsService.track_view()
AutoTrackCalls ==
  << "track_clicks", "track_forms", "track_links", "track_scrolls",
     "track_sessions", "track_errors", "track_pageview", "track_view" >>

RECURSIVE forwardAll(_, _)
forwardAll(s, fns) ==
  IF fns = <<>> THEN s
  ELSE forwardAll(Forward(s, Call(Head(fns), <<>>, <<>>)), Tail(fns))

setupAutoTrack(s) == forwardAll(s, AutoTrackCalls)

\* the constructor body, lines 100-121
construct(s, autoTrack) ==
  LET s1 == Forward(s, Call("init", <<>>, <<>>))
      s2 == Forward(s1, Call("group_features", Keys(groupedFeatures), <<>>))
      s3 == IF autoTrack THEN setupAutoTrack(s2) ELSE s2
      existingConsent == getConsentStoreValue(s3)
      s4 == getConsentStore(s3)
      s5 == IF Len(existingConsent) > 0 THEN addConsent(s4, Many(existingConsent)) ELSE s4
  IN [s5 EXCEPT !.initDone = TRUE]

(* ------------------------------ inputs --------------------------------- *)
\* the catalog categories callers draw their arguments from
InputCats == {"minimal", "all"}

\* a string that is no key of the catalog
NonCatalogName == "marketing"

AllFlags == Range(Get(groupedFeatures, "all"))

\* consentTypes | consentTypes[]
ConsentArgs ==
  {One(c) : c \in InputCats} \cup {Many(l) : l \in SeqsUpTo(InputCats, MaxList)}

\* string[]
UpdateArgs == SeqsUpTo(InputCats \cup {NonCatalogName}, MaxList)

\* consentTypes | metricFeatures, and a name that is neither
CheckArgs == InputCats \cup FeaturesOf("minimal") \cup {NonCatalogName}

\* what the service has granted when it is handed to the constructor
InitialServiceConsents ==
  {{}, {"sessions", "views"}}

\* what the storage provider holds when it is handed to the constructor
PersistedLists == SeqsUpTo(InputCats, MaxList)

(* ------------------------------- state --------------------------------- *)
\* field initialisers have run (lines 93-97); collaborators as configured
Fresh(provider, persisted, granted) ==
  [ consentGranted  |-> <<>>,
    sessionStarted  |-> FALSE,
    initDone        |-> FALSE,
    storageProvider |-> provider,
    store           |-> persisted,
    svc             |-> granted,
    sessionLog      |-> <<>>,
    calls           |-> <<>>,
    reads           |-> 0,
    writes          |-> 0,
    raised          |-> FALSE ]

\* what one call forwards, reads and writes is counted from its entry
Enter(s) == [s EXCEPT !.calls = <<>>, !.reads = 0, !.writes = 0]

\* the call that returned last: its argument, its result, the ledger it found
Did(op, arg, result, before) ==
  [op |-> op, arg |-> arg, result |-> result, before |-> before]

Init ==
  /\ \E provider \in BOOLEAN, granted \in InitialServiceConsents :
       \E persisted \in (IF provider THEN PersistedLists ELSE {<<>>}) :
         /\ mp = Fresh(provider, persisted, granted)
         /\ twin = Fresh(TRUE, <<>>, granted)
  /\ last = Did("none", <<>>, FALSE, <<>>)
  /\ eventMap = BuiltinEventMap
  /\ mapped = groupedFeatures

(* ------------------------------ actions -------------------------------- *)
\* the twin receives the calls of a facade that was given no storage provider
Replay(next) == twin' = IF mp.storageProvider THEN twin ELSE next

Constructor ==
  /\ last.op = "none"
  /\ \E autoTrack \in BOOLEAN :
       /\ mp' = construct(Enter(mp), autoTrack)
       /\ Replay(construct(Enter(twin), autoTrack))
  /\ last' = Did("constructor", getConsentStoreValue(mp), FALSE, <<>>)
  /\ UNCHANGED <<eventMap, mapped>>

CallAddConsent ==
  /\ mp.initDone
  /\ \E consent \in ConsentArgs :
       /\ mp' = addConsent(Enter(mp), consent)
       /\ Replay(addConsent(Enter(twin), consent))
  /\ last' = Did("addConsent", <<>>, FALSE, <<>>)
  /\ UNCHANGED <<eventMap, mapped>>

CallRemoveConsent ==
  /\ mp.initDone
  /\ \E consent \in ConsentArgs :
       /\ mp' = removeConsent(Enter(mp), consent)
       /\ Replay(removeConsent(Enter(twin), consent))
  /\ last' = Did("removeConsent", <<>>, FALSE, <<>>)
  /\ UNCHANGED <<eventMap, mapped>>

CallUpdateConsent ==
  /\ mp.initDone
  /\ \E consent \in UpdateArgs :
       /\ mp' = updateConsent(Enter(mp), consent)
       /\ Replay(updateConsent(Enter(twin), consent))
       /\ last' = Did("updateConsent", consent, FALSE, consentGranted(mp))
  /\ UNCHANGED <<eventMap, mapped>>

CallCheckConsent ==
  /\ mp.initDone
  /\ \E consent \in CheckArgs :
       last' = Did("checkConsent", consent, checkConsent(mp, consent), <<>>)
  /\ UNCHANGED <<mp, twin, eventMap, mapped>>

CallStartSession ==
  /\ mp.initDone
  /\ mp.sessionStarted \/ Len(mp.sessionLog) < MaxSessionCalls
  /\ \E noHeartBeat \in BOOLEAN, force \in BOOLEAN :
       /\ mp' = startSession(Enter(mp), noHeartBeat, force)
       /\ Replay(startSession(Enter(twin), noHeartBeat, force))
  /\ last' = Did("startSession", <<>>, FALSE, <<>>)
  /\ UNCHANGED <<eventMap, mapped>>

CallEndSession ==
  /\ mp.initDone
  /\ ~mp.sessionStarted \/ Len(mp.sessionLog) < MaxSessionCalls
  /\ \E force \in BOOLEAN :
       /\ mp' = endSession(Enter(mp), force)
       /\ Replay(endSession(Enter(twin), force))
  /\ last' = Did("endSession", <<>>, FALSE, <<>>)
  /\ UNCHANGED <<eventMap, mapped>>

Next ==
  \/ Constructor
  \/ CallAddConsent
  \/ CallRemoveConsent
  \/ CallUpdateConsent
  \/ CallCheckConsent
  \/ CallStartSession
  \/ CallEndSession

Spec == Init /\ [][Next]_vars

(* ---------------- mapAllEvents on arbitrary event maps ----------------- *)
MapKeyOrder == <<"minimal", "performance", "ux", "feedback", "location">>

MapKeyPool == {MapKeyOrder[i] : i \in 1..(IF MaxMapKeys < 5 THEN MaxMapKeys ELSE 5)}

MapFlagPool == {"sessions", "crashes"}

EventMaps ==
  {BuiltinEventMap} \cup
  UNION { { [i \in 1..Len(ks) |-> [key |-> ks[i], flags |-> fl[i]]] :
              fl \in [1..Len(ks) -> SeqsUpTo(MapFlagPool, MaxFlags)] } :
          ks \in {k \in SeqsUpTo(MapKeyPool, MaxMapKeys) : NoDup(k)} }

InitMap ==
  /\ eventMap \in EventMaps
  /\ mapped = <<>>
  /\ mp = Fresh(FALSE, <<>>, {})
  /\ twin = Fresh(TRUE, <<>>, {})
  /\ last = Did("none", <<>>, FALSE, <<>>)

CallMapAllEvents ==
  /\ last.op = "none"
  /\ mapped' = mapAllEvents(eventMap)
  /\ last' = Did("mapAllEvents", <<>>, FALSE, <<>>)
  /\ UNCHANGED <<mp, twin, eventMap>>

NextMap == CallMapAllEvents

SpecMap == InitMap /\ [][NextMap]_vars

(* ============================== claims ================================= *)
ConsentCalls(s) ==
  {i \in 1..Len(s.calls) : s.calls[i].fn \in {"add_consent", "remove_consent"}}

AddCalls(s) == {i \in 1..Len(s.calls) : s.calls[i].fn = "add_consent"}

Count(log, fn) == Cardinality({i \in 1..Len(log) : log[i] = fn})

\* C1: after updateConsent(C) the granted categories are exactly the catalog
\* keys that occur in C, whatever was granted before and whatever else C names.
C1_FullReconciliation ==
  last.op = "updateConsent" =>
    Range(consentGranted(mp)) = {c \in CatalogKeys : c \in Range(last.arg)}

C1_Witness ==
  /\ last.op = "updateConsent"
  /\ last.before = <<"all">>
  /\ last.arg = <<NonCatalogName, "minimal">>
  /\ consentGranted(mp) = <<"minimal">>

\* C2: updateConsent([]) leaves the ledger empty, forwards no add_consent,
\* forwards remove_consent(.., true) for every catalog category, and afterwards
\* checkConsent is false for every catalog category.
C2_EmptyUpdateRevokesAll ==
  (last.op = "updateConsent" /\ last.arg = <<>>) =>
    /\ consentGranted(mp) = <<>>
    /\ AddCalls(mp) = {}
    /\ \A c \in CatalogKeys :
         \E i \in 1..Len(mp.calls) :
           mp.calls[i] = Call("remove_consent", <<c>>, <<TRUE>>)
    /\ \A i \in ConsentCalls(mp) : mp.calls[i].flags = <<TRUE>>
    /\ \A c \in CatalogKeys : ~checkConsent(mp, c)

C2_Witness ==
  /\ last.op = "updateConsent"
  /\ last.arg = <<>>
  /\ last.before = <<"minimal", "all">>
  /\ mp.svc = {}

C4_SessionGuard ==
  [][ /\ \A i \in 1..Len(mp'.sessionLog) :
           mp'.sessionLog[i] = IF i % 2 = 1 THEN "begin_session" ELSE "end_session"
      /\ mp'.sessionStarted <=>
           Count(mp'.sessionLog, "begin_session") = Count(mp'.sessionLog, "end_session") + 1
      /\ ~mp'.sessionStarted =>
           Count(mp'.sessionLog, "begin_session") = Count(mp'.sessionLog, "end_session")
      /\ last'.op = "startSession" =>
           IF mp.sessionStarted
             THEN mp'.calls = <<>> /\ mp'.sessionLog = mp.sessionLog
             ELSE /\ Len(mp'.calls) = 1
                  /\ mp'.calls[1].fn = "begin_session"
                  /\ mp'.sessionLog = Append(mp.sessionLog, "begin_session")
      /\ last'.op = "endSession" =>
           IF ~mp.sessionStarted
             THEN mp'.calls = <<>> /\ mp'.sessionLog = mp.sessionLog
             ELSE /\ Len(mp'.calls) = 1
                  /\ mp'.calls[1].fn = "end_session"
                  /\ mp'.sessionLog = Append(mp.sessionLog, "end_session")
    ]_vars

C4_Witness ==
  /\ last.op = "startSession"
  /\ mp.sessionStarted
  /\ mp.calls = <<>>
  /\ mp.sessionLog = <<"begin_session">>

\* C5: construction over a non-empty persisted list P grants exactly the
\* elements of P, forwards exactly one add_consent(P) and writes nothing to the
\* store; over an empty list it forwards no add_consent, writes nothing and
\* leaves the ledger empty.
C5_ConstructionLoadsWithoutWriteBack ==
  last.op = "constructor" =>
    /\ mp.writes = 0
    /\ mp.store = last.arg
    /\ IF last.arg # <<>>
         THEN /\ Range(consentGranted(mp)) = Range(last.arg)
              /\ Cardinality(AddCalls(mp)) = 1
              /\ \A i \in AddCalls(mp) : mp.calls[i].names = last.arg
         ELSE /\ consentGranted(mp) = <<>>
              /\ AddCalls(mp) = {}

C5_Witness ==
  /\ last.op = "constructor"
  /\ last.arg = <<"all", "minimal">>
  /\ consentGranted(mp) = <<"all", "minimal">>
  /\ mp.reads = 1

\* C6: with a storage provider, once addConsent, removeConsent or updateConsent
\* has returned, the store holds the ledger, same categories in the same order;
\* every add and remove wrote it once (updateConsent once per catalog key).
C6_StoreMirrorsLedger ==
  (mp.storageProvider /\ last.op \in {"addConsent", "removeConsent", "updateConsent"}) =>
    /\ mp.store = consentGranted(mp)
    /\ mp.writes = IF last.op = "updateConsent" THEN Len(Keys(groupedFeatures)) ELSE 1

C6_Witness ==
  /\ mp.storageProvider
  /\ last.op = "addConsent"
  /\ mp.store = <<"all", "minimal">>
  /\ mp.writes = 1

\* C7: checkConsent of a catalog category is the conjunction of the service's
\* check_consent over the category's flags, of any other name the service's
\* check_consent of that name; the call changes nothing of the facade, the
\* service or the store.
C7_CheckConsent ==
  [][ last'.op = "checkConsent" =>
        /\ mp' = mp
        /\ last'.result =
             IF last'.arg \in CatalogKeys
               THEN FeaturesOf(last'.arg) \subseteq mp.svc
               ELSE svc_check_consent(mp, last'.arg)
    ]_vars

C7_Witness ==
  /\ last.op = "checkConsent"
  /\ last.arg = "minimal"
  /\ ~last.result
  /\ mp.svc = {"sessions", "views"}

\* C9: without a storage provider nothing raises, the store is neither read
\* nor written, construction leaves the ledger empty and forwards no
\* add_consent, and ledger, service consents and forwarded calls equal those of
\* a facade over an empty store that received the same calls.
C9_AbsentStorageTolerated ==
  (~mp.storageProvider /\ mp.initDone) =>
    /\ ~mp.raised
    /\ mp.reads = 0 /\ mp.writes = 0 /\ mp.store = <<>>
    /\ last.op = "constructor" => consentGranted(mp) = <<>> /\ AddCalls(mp) = {}
    /\ twin.storageProvider /\ ~twin.raised
    /\ consentGranted(mp) = consentGranted(twin)
    /\ mp.calls = twin.calls
    /\ mp.svc = twin.svc

C9_Witness ==
  /\ ~mp.storageProvider
  /\ last.op = "updateConsent"
  /\ consentGranted(mp) = <<"minimal", "all">>
  /\ twin.store = <<"minimal", "all">>
  /\ twin.writes = Len(Keys(groupedFeatures))

\* C10 as stated: after updateConsent every category of the ledger is
\* permitted by the service, checkConsent of it is true.
C10_LedgerAgreesWithService ==
  last.op = "updateConsent" =>
    \A c \in Range(consentGranted(mp)) : checkConsent(mp, c)

(* -------------------------- claims on SpecMap -------------------------- *)
\* where the flag list of the i-th category starts in the flattened list
RECURSIVE Offset(_, _)
Offset(em, i) == IF i = 1 THEN 0 ELSE Offset(em, i - 1) + Len(em[i - 1].flags)

BuiltinAll ==
  << "sessions", "views", "events", "crashes", "apm", "scrolls", "clicks",
     "forms", "star-rating", "feedback", "location" >>

InputKept ==
  /\ Len(mapped) = Len(eventMap) + 1
  /\ \A i \in 1..Len(eventMap) : mapped[i] = eventMap[i]
  /\ mapped[Len(mapped)].key = "all"

\* C8 as stated: the input is returned unchanged plus an 'all' entry that lists
\* every flag once, in order of first appearance over the categories in key order.
C8_AllListsEachFlagOnce ==
  last.op = "mapAllEvents" =>
    /\ InputKept
    /\ LET all == mapped[Len(mapped)].flags
       IN /\ NoDup(all)
          /\ Range(all) = UNION {Range(eventMap[i].flags) : i \in 1..Len(eventMap)}
          /\ eventMap = BuiltinEventMap => all = BuiltinAll

\* C8 amended: the input is returned unchanged plus an 'all' entry that is the
\* concatenation of the categories' flag lists in key order, one item per
\* occurrence; it lists each flag once exactly when no flag occurs twice in the
\* input, and for the built-in catalog it is sessions .. location.
C8_AllIsConcatenation ==
  last.op = "mapAllEvents" =>
    /\ InputKept
    /\ LET all == mapped[Len(mapped)].flags
           n == Len(eventMap)
       IN /\ Len(all) = IF n = 0 THEN 0 ELSE Offset(eventMap, n) + Len(eventMap[n].flags)
          /\ \A i \in 1..n : \A j \in 1..Len(eventMap[i].flags) :
               all[Offset(eventMap, i) + j] = eventMap[i].flags[j]
          /\ NoDup(all) <=>
               /\ \A i \in 1..n : NoDup(eventMap[i].flags)
               /\ \A i, j \in 1..n :
                    i # j => Range(eventMap[i].flags) \cap Range(eventMap[j].flags) = {}
          /\ eventMap = BuiltinEventMap => all = BuiltinAll

C8_Witness ==
  /\ last.op = "mapAllEvents"
  /\ Len(eventMap) = 2
  /\ Get(mapped, "all") = <<"sessions", "crashes", "crashes">>

====
